---- MODULE Spec2Model ----
(***************************************************************************)
(* Scheduling and delivery pipeline of the push notification server:       *)
(* the schedule / immediate routes, the Bull queue processor, the cancel   *)
(* (DELETE by id) and bulk delete routes, over the Message and Device      *)
(* stores and the delayed-job queue.  Every await of a handler is a step   *)
(* of its own, so that handlers and the queue processor interleave as the  *)
(* event loop lets them.                                                   *)
(*                                                                         *)
(* Time is kept relative to the server clock: an instant is its distance   *)
(* in ms from `new Date()` (so now = 0 and scheduledTime - now is the      *)
(* instant itself), a queued job carries the ms left until it is due and a *)
(* stored message its age.  Tick lets TickMs milliseconds pass.            *)
(***************************************************************************)
EXTENDS Integers, Sequences, FiniteSets, TLC

(* ------------------------------ bounds -------------------------------- *)
\* ObjectIds ever generated for Message documents.
MaxMsgs == 1
\* ObjectIds ever generated for Device documents.
MaxDevices == 2
\* Clock advances after which a message's age is no longer told apart.
MaxTicks == 1
\* Milliseconds one clock advance adds.
TickMs == 300000
\* DELETE /api/push-messages/:messageId requests the server receives.
MaxCancels == 1
\* DELETE /api/push-messages requests the server receives.
MaxBulks == 1
\* POST /api/device/register requests in progress at a time.
MaxRegs == 2
\* Refreshes of a device's lastActive that are told apart.
MaxRefresh == 2

(* ------------------------- program constants -------------------------- *)
GraceMs == 10000
MinDelayMs == 1000
ImmediateDelayMs == 5000
Attempts == 3
BackoffMs == 2000
CstOffsetMs == 21600000
TitleMaxLength == 100
ContentMaxLength == 500

MsgIds == 1..MaxMsgs
DevIds == 1..MaxDevices
PushTokens == 1..MaxDevices

Min(S) == CHOOSE x \in S : \A y \in S : x <= y
Max(S) == CHOOSE x \in S : \A y \in S : x >= y

(* ----------------------------- Message model -------------------------- *)
\* The paths of messageSchema; a write to any other path is dropped
\* (mongoose strict mode).
SchemaPaths ==
  {"title", "content", "scheduledDateTime", "status", "category", "priority",
   "targetAudience", "recipients", "deliveredCount", "deliveryRate",
   "createdBy", "sentAt", "errorMessage", "healthCategory", "actionRequired",
   "expiresAt", "clickCount", "dismissCount", "createdAt", "updatedAt"}

StatusEnum == {"Draft", "Scheduled", "Sent", "Failed", "Cancelled"}

\* A plausible slip: a schema without the maxlength validators.
ValidatesAlways(title, body) == TRUE

\* The validators save() runs on a new document: title and content are
\* required, with maxlength 100 and 500.
Validates(title, body) ==
  /\ title # "" /\ Len(title) <= TitleMaxLength
  /\ body # "" /\ Len(body) <= ContentMaxLength

\* A plausible slip: a document stored as a draft.
NewMessageDraft(title, body) ==
  [title |-> title, content |-> body, status |-> "Draft", age |-> 0,
   paths |-> {}]

\* new Message({...}) followed by save(): the stored document.  status, the
\* creation time (as age) and the optional paths are the fields a handler
\* reads back; paths holds the optional paths that are set on the document.
NewMessage(title, body) ==
  [title |-> title, content |-> body, status |-> "Scheduled", age |-> 0,
   paths |-> {}]

\* A plausible slip: an update that only a Scheduled document takes.
ApplyUpdateFirstWins(doc, status, path) ==
  IF doc.status = "Scheduled"
  THEN [doc EXCEPT !.status = status,
                   !.paths = @ \cup ({path} \cap SchemaPaths)]
  ELSE doc

\* A plausible slip: an update document without the status.
ApplyUpdateNoStatus(doc, status, path) ==
  [doc EXCEPT !.paths = @ \cup ({path} \cap SchemaPaths)]

\* An update document {status, <path>: value} applied to a stored document:
\* only the paths of the schema are written.
ApplyUpdate(doc, status, path) ==
  [doc EXCEPT !.status = status,
              !.paths = @ \cup ({path} \cap SchemaPaths)]

\* The document findByIdAndUpdate hands back (null when none matched).
Null == [isNull |-> TRUE, status |-> "", paths |-> {}]
DocOf(doc) == [isNull |-> FALSE, status |-> doc.status, paths |-> doc.paths]

(* ------------------------------ job keys ------------------------------ *)
\* An ObjectId rendered by a template literal: a fixed-width string.
MsgOid(m) == "a" \o ToString(m)
DevOid(d) == "d" \o ToString(d)

\* jobId: `${message._id}-${device._id}`
JobId(m, d) == MsgOid(m) \o "-" \o DevOid(d)

(* ----------------------------- the queue ------------------------------ *)
\* Bull keeps one job hash per job id; add() with a jobId that already
\* exists leaves the queue as it is and returns the existing job.
GetJob(q, id) == {j \in q : j.id = id}

\* calls / sent / again record what the gateway saw of the job: the calls
\* made for it, a call answered with success, and a call made after such an
\* answer.
NewJob(id, data, delay) ==
  [id |-> id, data |-> data, delay |-> delay, wait |-> delay,
   attempts |-> Attempts, attemptsMade |-> 0, state |-> "delayed",
   calls |-> 0, sent |-> FALSE, again |-> FALSE]

\* A plausible slip: the job added under an id of Bull's own (no jobId
\* option), so that nothing is looked up.
QueueAddNoDedup(q, id, data, delay) ==
  q \cup {NewJob(id, data, delay)}

\* notificationQueue.add(data, {delay, jobId, attempts: 3, backoff})
QueueAdd(q, id, data, delay) ==
  IF GetJob(q, id) # {} THEN q ELSE q \cup {NewJob(id, data, delay)}

\* job.remove(): a job locked by the processor cannot be removed (throws).
Removable(j) == j.state # "active"
QueueRemove(q, id) == {j \in q : j.id # id}

\* backoff {type: 'exponential', delay: 2000}: (2^attemptsMade - 1) * delay
Pow2(n) == IF n <= 0 THEN 1 ELSE IF n = 1 THEN 2 ELSE IF n = 2 THEN 4 ELSE 8

\* A plausible slip: backoff {type: 'fixed', delay: 2000}.
BackoffFixed(attemptsMade) == BackoffMs

Backoff(attemptsMade) == (Pow2(attemptsMade) - 1) * BackoffMs

(* --------------------------- Time Normalizer -------------------------- *)
\* A datetime string is characterised by: whether its text has the
\* YYYY-MM-DDTHH:mm:ss shape (so that the regular expression matches and the
\* Date parser reads it), whether it ends in an offset or Z, the instant its
\* wall-clock components denote when read as UTC (wall), its offset in ms
\* (off, 0 for Z and for a naive string), and what its components are as a
\* calendar instant (parts): "real"; "overflow", a day number up to 31 that
\* the month does not have (wall is then the instant reached by carrying the
\* days into the next month); "range", a component out of its range, such as
\* month 13.  dst tells that its date lies in the part of the year in which
\* America/Chicago observes daylight saving time.
DateString(shape, hasTz, wall, off) ==
  [shape |-> shape, hasTz |-> hasTz, wall |-> wall, off |-> off,
   parts |-> "real", dst |-> FALSE]

WithParts(s, parts) == [s EXCEPT !.parts = parts]
InDst(s) == [s EXCEPT !.dst = TRUE]

\* A plausible slip: the sign of the offset, '+06:00'.
AppendCstOffsetEast(s) == [s EXCEPT !.hasTz = TRUE, !.off = CstOffsetMs]

\* processedString += '-06:00'
AppendCstOffset(s) == [s EXCEPT !.hasTz = TRUE, !.off = 0 - CstOffsetMs]

\* new Date(string) for a string that ends in an offset or Z: NaN for a text
\* the parser cannot read or with a component out of range; the parser of
\* V8 takes a day number up to 31 for every month and carries it over.
NaN == [isNaN |-> TRUE, time |-> 0]
NewDate(s) ==
  IF ~s.shape \/ s.parts = "range" THEN NaN
  ELSE [isNaN |-> FALSE, time |-> s.wall - s.off]

\* The value returned from the catch block.
Invalid == [isValid |-> FALSE, utcDate |-> 0]

\* inputDate.toLocaleString('en-US', {timeZone: 'America/Chicago', ...}):
\* the wall clock of Chicago at the instant (given, like wall, as the instant
\* its components denote when read as UTC): 6 hours behind UTC, 5 hours
\* while daylight saving time is observed.
ToLocaleChicago(time, dst) ==
  IF dst THEN time - 18000000 ELSE time - 21600000

convertToCST(s) ==
  LET match == s.shape
      processedString == IF ~s.hasTz THEN AppendCstOffset(s) ELSE s
      inputDate == NewDate(processedString)
  IN  IF ~s.hasTz /\ ~match THEN Invalid
      ELSE IF inputDate.isNaN THEN Invalid
      ELSE [isValid |-> TRUE, utcDate |-> inputDate.time,
            cstString |-> ToLocaleChicago(inputDate.time, s.dst)]

(* ------------------------------- state -------------------------------- *)
VARIABLES
  devices,    \* Device collection: id -> document
  devCount,   \* Device ObjectIds generated so far
  messages,   \* Message collection: id -> document
  msgCount,   \* Message ObjectIds generated so far
  queue,      \* notificationQueue: the set of job hashes
  worker,     \* the queue processor's current job and position
  sch,        \* the in-flight create request (schedule or immediate)
  can,        \* the in-flight DELETE /api/push-messages/:messageId
  bulk,       \* the in-flight DELETE /api/push-messages
  pushed,     \* messages for which the gateway answered a call with success
  cancels,    \* DELETE /api/push-messages/:messageId requests received
  bulks,      \* DELETE /api/push-messages requests received
  out,        \* what the last step sent out: an HTTP response, a socket.io
              \* event, or nothing
  reg         \* the in-flight POST /api/device/register requests

vars == <<devices, devCount, messages, msgCount, queue, worker, sch, can,
          bulk, pushed, cancels, bulks, out, reg>>

\* saved and enq count the documents stored and the job hashes created for
\* the request.
SchIdle ==
  [pc |-> "idle", route |-> "", title |-> "", body |-> "", delay |-> 0,
   devs |-> {}, n |-> 0, msg |-> 0, saved |-> 0, enq |-> 0]
\* read is the status findById returned, qfail tells that a queue call
\* threw.
CanIdle ==
  [pc |-> "idle", id |-> 0, read |-> "", devs |-> {}, qfail |-> FALSE]
\* scheduled are the found messages the cleanup loop treats.
BulkIdle ==
  [pc |-> "idle", kind |-> "", ids |-> {}, status |-> "", before |-> 0,
   todo |-> {}, scheduled |-> {}, qerr |-> FALSE, removed |-> 0]

\* An HTTP response: the route, the status code and the fields of the body
\* (and of the request it answers) the properties below read.
NoOut ==
  [route |-> "", code |-> 0, error |-> "", id |-> 0, read |-> "",
   status |-> "", warn |-> FALSE, qfail |-> FALSE, n |-> 0, saved |-> 0, enq |-> 0,
   scheduled |-> {}, gone |-> {}, removed |-> 0]
Response(route, code, error) ==
  [NoOut EXCEPT !.route = route, !.code = code, !.error = error]
\* token and body are the `to` and `body` of the payload in hand.
\* token is the pushToken of the request, device the document findOne
\* returned (0 for null).
RegHandlers == 1..MaxRegs
RegIdle == [pc |-> "idle", token |-> 0, device |-> 0]
WorkerIdle ==
  [pc |-> "idle", job |-> "", token |-> 0, body |-> "", ok |-> FALSE,
   updated |-> Null]

Init ==
  /\ devices = <<>>
  /\ devCount = 0
  /\ messages = <<>>
  /\ msgCount = 0
  /\ queue = {}
  /\ worker = WorkerIdle
  /\ sch = SchIdle
  /\ can = CanIdle
  /\ bulk = BulkIdle
  /\ pushed = {}
  /\ cancels = 0
  /\ bulks = 0
  /\ out = NoOut
  /\ reg = [h \in RegHandlers |-> RegIdle]

Drop(f, S) == [x \in DOMAIN f \ S |-> f[x]]
Put(f, k, v) == [x \in DOMAIN f \cup {k} |-> IF x = k THEN v ELSE f[x]]

ActiveDevices == {d \in DOMAIN devices : devices[d].isActive}

(* ------------------------------ the clock ----------------------------- *)
\* TickMs milliseconds pass: delayed jobs come closer to being due, stored
\* messages grow older.
Tick ==
  /\ queue' = {IF j.state = "delayed"
               THEN [j EXCEPT !.wait = Max({0, @ - TickMs})] ELSE j :
               j \in queue}
  /\ messages' = [m \in DOMAIN messages |->
                   [messages[m] EXCEPT
                      !.age = Min({@ + TickMs, MaxTicks * TickMs})]]
  /\ <<queue', messages'>> # <<queue, messages>>
  /\ UNCHANGED <<devices, devCount, msgCount, worker, sch, can, bulk, pushed,
                 cancels, bulks>>
  /\ out' = NoOut
  /\ UNCHANGED reg

(* ------------------------------ devices ------------------------------- *)
\* POST /api/device/register: a known token keeps its document (only fields
\* no operation below reads are refreshed), a new one creates a document.
\* Tokens are interchangeable: the k-th document created gets token k.
RegisterDevice(token) ==
  /\ \A d \in DOMAIN devices : devices[d].pushToken # token
  /\ token = devCount + 1
  /\ devCount < MaxDevices
  /\ devCount' = devCount + 1
  /\ devices' = Put(devices, devCount + 1,
                    [pushToken |-> token, isActive |-> TRUE, lastActive |-> 0])
  /\ UNCHANGED <<messages, msgCount, queue, worker, sch, can, bulk, pushed,
                 cancels, bulks>>
  /\ out' = NoOut
  /\ UNCHANGED reg

\* DELETE /api/devices/all
DeleteAllDevices ==
  /\ devices # <<>>
  /\ devices' = <<>>
  /\ UNCHANGED <<devCount, messages, msgCount, queue, worker, sch, can, bulk,
                 pushed, cancels, bulks>>
  /\ out' = NoOut
  /\ UNCHANGED reg

\* The unique index on pushToken accepts every insert.
DuplicateKeyNever(devs, token) == FALSE

\* The unique index on pushToken rejects the insert of a document whose
\* token a stored document already has (E11000 duplicate key).
DuplicateKey(devs, token) ==
  \E d \in DOMAIN devs : devs[d].pushToken = token

\* Device.findOne({ pushToken }): a stored document with the token, 0 for
\* null.
FindOne(devs, token) ==
  LET found == {d \in DOMAIN devs : devs[d].pushToken = token}
  IN  IF found = {} THEN 0 ELSE CHOOSE d \in found : TRUE

\* The registrations in progress that are about to insert a new document.
Creating == {h \in RegHandlers : reg[h].pc = "save" /\ reg[h].device = 0}

\* POST /api/device/register, up to the answer of findOne. Token 0 is a
\* request without pushToken. The handler reads the document here and writes
\* it in RegisterSave: other requests run in between.
RegisterFind(h, token) ==
  /\ reg[h].pc = "idle"
  /\ IF token = 0
     THEN /\ out' = Response("register", 400, "Push token is required")
          /\ reg' = reg
     ELSE /\ FindOne(devices, token) = 0
                => devCount + Cardinality(Creating) < MaxDevices
          /\ reg' = [reg EXCEPT ![h] = [pc |-> "save", token |-> token,
                                         device |-> FindOne(devices, token)]]
          /\ out' = NoOut
  /\ UNCHANGED <<devices, devCount, messages, msgCount, queue, worker, sch,
                 can, bulk, pushed, cancels, bulks>>

\* POST /api/device/register, from device.save() to the response. A found
\* document gets a new lastActive and is saved (a save of a document deleted
\* meanwhile throws); otherwise a new document is inserted, unless the unique
\* index rejects it. Every error is answered by the catch block with 500.
RegisterSave(h) ==
  LET r == reg[h]
  IN  /\ r.pc = "save"
      /\ reg' = [reg EXCEPT ![h] = RegIdle]
      /\ IF r.device # 0
         THEN IF r.device \in DOMAIN devices
              THEN /\ devices' =
                        [devices EXCEPT ![r.device].lastActive =
                           Min({@ + 1, MaxRefresh})]
                   /\ out' = [Response("register", 200, "")
                                EXCEPT !.id = r.device]
                   /\ UNCHANGED devCount
              ELSE /\ out' = Response("register", 500, "DocumentNotFound")
                   /\ UNCHANGED <<devices, devCount>>
         ELSE IF DuplicateKey(devices, r.token)
              THEN /\ out' = Response("register", 500, "E11000")
                   /\ UNCHANGED <<devices, devCount>>
              ELSE /\ devCount' = devCount + 1
                   /\ devices' = Put(devices, devCount + 1,
                                     [pushToken |-> r.token, isActive |-> TRUE,
                                      lastActive |-> 0])
                   /\ out' = [Response("register", 200, "")
                                EXCEPT !.id = devCount + 1]
      /\ UNCHANGED <<messages, msgCount, queue, worker, sch, can, bulk,
                     pushed, cancels, bulks>>

(* --------------------------- create requests -------------------------- *)
\* Instants a request may ask for (relative to the server clock).
Offsets == {0 - 3600000, 0 - GraceMs - 1, 0 - GraceMs, TickMs}

\* The datetime strings a client may send for the instant off: naive (read
\* as CST), with Z, with -06:00, one of no recognisable shape without and
\* with Z, naive and Z strings that name a day the month does not have or a
\* month that does not exist, and naive and Z strings for a summer date.
DateStrings(off) ==
  { DateString(TRUE, FALSE, off - CstOffsetMs, 0),
    DateString(TRUE, TRUE, off, 0),
    DateString(TRUE, TRUE, off - CstOffsetMs, 0 - CstOffsetMs),
    DateString(FALSE, FALSE, off, 0),
    DateString(FALSE, TRUE, off, 0),
    WithParts(DateString(TRUE, FALSE, off - CstOffsetMs, 0), "overflow"),
    WithParts(DateString(TRUE, TRUE, off, 0), "overflow"),
    WithParts(DateString(TRUE, FALSE, off - CstOffsetMs, 0), "range"),
    WithParts(DateString(TRUE, TRUE, off, 0), "range"),
    InDst(DateString(TRUE, FALSE, off - CstOffsetMs, 0)),
    InDst(DateString(TRUE, TRUE, off, 0)) }

\* A text of n characters.
RECURSIVE Rep(_)
Rep(n) ==
  IF n = 0 THEN "" ELSE IF n = 1 THEN "x"
  ELSE LET half == Rep(n \div 2) IN half \o half \o Rep(n % 2)

\* The titles and bodies a client may send: empty, short, and one character
\* longer than the schema allows.
Titles == {"", "T", Rep(TitleMaxLength + 1)}
Bodies == {"", "B", Rep(ContentMaxLength + 1)}

\* Device.find({_id: deviceId}) or Device.find({isActive: true});
\* deviceId = 0 stands for a request without deviceId.
FindTargets(deviceId) ==
  IF deviceId # 0 THEN {d \in DOMAIN devices : d = deviceId}
  ELSE ActiveDevices

\* res.status(code).json({success: false, error}) of a create route.
Reject(code, error) ==
  /\ sch' = SchIdle
  /\ out' = Response("create", code, error)

\* A plausible slip: the grace window taken in seconds.
InPastSeconds(delay) == delay < 0 - GraceMs * 1000

\* delay < -10000
InPast(delay) == delay < 0 - GraceMs

\* A plausible slip: the delay handed to the queue as computed.
EffectiveDelayRaw(delay) == delay

\* delay < 1000 ? 1000 : delay
EffectiveDelay(delay) == IF delay < MinDelayMs THEN MinDelayMs ELSE delay

\* POST /api/push-messages, up to the resolution of the target devices.
ScheduleMessage(title, body, hasDate, str, deviceId) ==
  /\ sch.pc = "idle"
  /\ msgCount < MaxMsgs
  /\ IF title = "" \/ body = "" \/ ~hasDate
     THEN Reject(400, "Missing required fields")
     ELSE LET cstConversion == convertToCST(str)
              delay == cstConversion.utcDate
              found == FindTargets(deviceId)
          IN  IF ~cstConversion.isValid
              THEN Reject(400, "Invalid datetime format")
              ELSE IF InPast(delay)
              THEN Reject(400, "Scheduled time must be in the future")
              ELSE IF found = {}
              THEN Reject(404, "No active devices found")
              ELSE /\ sch' = [SchIdle EXCEPT !.pc = "save",
                                !.route = "scheduled", !.title = title,
                                !.body = body,
                                !.delay = EffectiveDelay(delay),
                                !.devs = found, !.n = Cardinality(found)]
                   /\ out' = NoOut
  /\ UNCHANGED <<devices, devCount, messages, msgCount, queue, worker, can,
                 bulk, pushed, cancels, bulks>>
  /\ UNCHANGED reg

\* POST /api/push-messages/immediate, up to the resolution of the devices.
ImmediateMessage(title, body, deviceId) ==
  /\ sch.pc = "idle"
  /\ msgCount < MaxMsgs
  /\ IF title = "" \/ body = ""
     THEN Reject(400, "Missing required fields")
     ELSE LET found == FindTargets(deviceId) IN
          IF found = {}
          THEN Reject(404, "No active devices found")
          ELSE /\ sch' = [SchIdle EXCEPT !.pc = "save", !.route = "immediate",
                            !.title = title, !.body = body,
                            !.delay = ImmediateDelayMs,
                            !.devs = found, !.n = Cardinality(found)]
               /\ out' = NoOut
  /\ UNCHANGED <<devices, devCount, messages, msgCount, queue, worker, can,
                 bulk, pushed, cancels, bulks>>
  /\ UNCHANGED reg

\* A plausible slip: a record stored per target device.
RecordsPerRequestEach(n) == n

\* Create ONE message record (not one per device)
RecordsPerRequest(n) == 1

\* new Message({...}); await message.save(): a document that fails the
\* validators is not stored, save() rejects and the route's catch answers
\* 500.
SaveMessage ==
  /\ sch.pc = "save"
  /\ IF ~Validates(sch.title, sch.body)
     THEN /\ sch' = SchIdle
          /\ out' = Response("create", 500, "validation")
          /\ UNCHANGED <<messages, msgCount>>
     ELSE LET k == RecordsPerRequest(sch.n)
              ids == (msgCount + 1)..(msgCount + k)
          IN  /\ msgCount' = msgCount + k
              /\ messages' = [x \in DOMAIN messages \cup ids |->
                               IF x \in ids
                               THEN NewMessage(sch.title, sch.body)
                               ELSE messages[x]]
              /\ sch' = [sch EXCEPT !.pc = "enqueue", !.msg = msgCount + 1,
                                     !.saved = Cardinality(DOMAIN messages')
                                               - Cardinality(DOMAIN messages)]
              /\ out' = NoOut
  /\ UNCHANGED <<devices, devCount, queue, worker, can, bulk, pushed,
                 cancels, bulks>>
  /\ UNCHANGED reg

\* The job data: {message: {...message.toObject(), deviceId: device._id}}
JobData(m, d, title, body) ==
  [msg |-> m, deviceId |-> d, title |-> title, content |-> body]

\* res.json({success: true, messageId, results, ...}) of a create route; n,
\* saved and enq are the devices resolved, the documents stored and the job
\* hashes created for the request.
Created(s) ==
  [Response("create", 200, "") EXCEPT !.id = s.msg, !.n = s.n,
     !.saved = s.saved, !.enq = s.enq]

\* One turn of `for (const device of devices) await notificationQueue.add`;
\* redisOk = FALSE is a failed Redis command, which makes add() throw.
EnqueueJob(redisOk) ==
  /\ sch.pc = "enqueue"
  /\ LET d == Min(sch.devs)
         id == JobId(sch.msg, d)
         data == JobData(sch.msg, d, sch.title, sch.body)
         q == QueueAdd(queue, id, data, sch.delay)
         rest == sch.devs \ {d}
         s == [sch EXCEPT !.devs = rest,
                 !.enq = @ + Cardinality(q) - Cardinality(queue)]
     IN  IF ~redisOk
         THEN /\ sch' = SchIdle
              /\ out' = [Response("create", 500, "queue") EXCEPT
                           !.id = sch.msg, !.n = sch.n, !.enq = sch.enq]
              /\ UNCHANGED queue
         ELSE /\ queue' = q
              /\ sch' = IF rest = {} THEN SchIdle ELSE s
              /\ out' = IF rest = {} THEN Created(s) ELSE NoOut
  /\ UNCHANGED <<devices, devCount, messages, msgCount, worker, can, bulk,
                 pushed, cancels, bulks>>
  /\ UNCHANGED reg

(* -------------------------- the queue processor ----------------------- *)
\* The ids a job may carry.
JobIds == {JobId(m, d) : m \in MsgIds, d \in DevIds}

TheJob(id) == CHOOSE j \in queue : j.id = id

SetJob(q, id, new) == {IF j.id = id THEN new ELSE j : j \in q}

\* A plausible slip: a job retried whatever the attempts made.
FailAttemptRetries(j) ==
  [j EXCEPT !.attemptsMade = Min({@ + 1, j.attempts}), !.state = "delayed",
            !.wait = Backoff(Min({j.attemptsMade + 1, j.attempts}))]

\* The processor threw: Bull retries the job after its backoff while
\* attempts are left, and moves it to failed otherwise.
FailAttempt(j) ==
  LET made == j.attemptsMade + 1 IN
  IF made < j.attempts
  THEN [j EXCEPT !.attemptsMade = made, !.state = "delayed",
                 !.wait = Backoff(made)]
  ELSE [j EXCEPT !.attemptsMade = made, !.state = "failed"]

\* A plausible slip: the processor throwing where it returns.
CompleteThrows(j) == FailAttempt(j)

\* The processor returned: the job is kept as completed.
Complete(j) == [j EXCEPT !.state = "completed"]

\* A plausible slip: a missing device thrown as an error, which Bull retries.
DeviceNotFoundThrows(j) == FailAttempt(j)

\* if (!device) return {success: false, error: 'Device not found'}
DeviceNotFound(j) == Complete(j)

\* The value of a property an object does not have.
Undefined == "undefined"

\* message.<key> for the message object of the job data.
Get(data, key) == IF key \in DOMAIN data THEN data[key] ELSE Undefined

\* body: message.body of pushMessage
PushBody(data) == Get(data, "body")

\* Bull hands a due job to the processor (concurrency 1) and locks it; the
\* processor starts: const device = await Device.findById(deviceId);
\* if (!device) return {success: false, error: 'Device not found'}; then
\* the payload pushMessage is put together.
ProcessJob(id) ==
  /\ worker.pc = "idle"
  /\ \E j \in queue :
       /\ j.id = id
       /\ j.state = "delayed"
       /\ j.wait <= 0
       /\ LET deviceId == j.data.deviceId IN
          IF deviceId \notin DOMAIN devices
          THEN /\ queue' = SetJob(queue, id, DeviceNotFound(j))
               /\ worker' = WorkerIdle
          ELSE /\ queue' = SetJob(queue, id, [j EXCEPT !.state = "active"])
               /\ worker' = [WorkerIdle EXCEPT !.pc = "fetch", !.job = id,
                                !.token = devices[deviceId].pushToken,
                                !.body = PushBody(j.data)]
  /\ UNCHANGED <<devices, devCount, messages, msgCount, sch, can, bulk,
                 pushed, cancels, bulks>>
  /\ out' = NoOut
  /\ UNCHANGED reg

GatewayOutcomes == {"ok", "error", "throw"}

\* A plausible slip: every answer that parses taken as a success.
IsOkAnyAnswer(outcome) == outcome # "throw"

\* result.data && result.data.status === 'ok'
IsOk(outcome) == outcome = "ok"

\* await fetch(...); await response.json(): the gateway call and its answer.
\* "ok": data.status === 'ok'; "error": any other body that parses (a
\* failure indicator, or JSON of another shape); "throw": a transport
\* exception of fetch, or a body response.json() cannot parse.
CallGateway(outcome) ==
  /\ worker.pc = "fetch"
  /\ LET j == TheJob(worker.job)
         called == [j EXCEPT !.calls = @ + 1, !.sent = @ \/ (outcome = "ok"),
                             !.again = @ \/ j.sent]
     IN
     /\ pushed' = IF outcome = "ok" THEN pushed \cup {j.data.msg} ELSE pushed
     /\ IF outcome = "throw"
        THEN /\ queue' = SetJob(queue, j.id, FailAttempt(called))
             /\ worker' = WorkerIdle
        ELSE /\ queue' = SetJob(queue, j.id, called)
             /\ worker' = [worker EXCEPT !.pc = "update",
                             !.ok = IsOk(outcome)]
  /\ UNCHANGED <<devices, devCount, messages, msgCount, sch, can, bulk,
                 cancels, bulks>>
  /\ out' = NoOut
  /\ UNCHANGED reg

\* {status: 'Sent', deliveredAt: new Date()}
SentPath == "deliveredAt"

\* {status: 'Failed', error: ...}
FailedPath == "error"

\* await Message.findByIdAndUpdate(message._id, {...}, {new: true})
UpdateStatus ==
  /\ worker.pc = "update"
  /\ LET j == TheJob(worker.job)
         m == j.data.msg
         status == IF worker.ok THEN "Sent" ELSE "Failed"
         path == IF worker.ok THEN SentPath ELSE FailedPath
     IN  IF m \in DOMAIN messages
         THEN LET doc == ApplyUpdate(messages[m], status, path) IN
              /\ messages' = [messages EXCEPT ![m] = doc]
              /\ worker' = [worker EXCEPT !.pc = "emit", !.updated = DocOf(doc)]
         ELSE /\ worker' = [worker EXCEPT !.pc = "emit", !.updated = Null]
              /\ UNCHANGED messages
  /\ UNCHANGED <<devices, devCount, msgCount, queue, sch, can, bulk, pushed,
                 cancels, bulks>>
  /\ out' = NoOut
  /\ UNCHANGED reg

\* io.emit('statusUpdate', {messageId, status, ...}): the event sent to
\* every connected client.
StatusUpdate(m, status) ==
  [NoOut EXCEPT !.route = "statusUpdate", !.id = m, !.status = status]

\* io.emit('statusUpdate', {..., deliveredAt: updatedMsg.deliveredAt}) and
\* the return; reading a property of null throws before anything is emitted,
\* and the catch rethrows.
EmitAndReturn ==
  /\ worker.pc = "emit"
  /\ LET j == TheJob(worker.job) IN
     IF worker.updated.isNull
     THEN /\ queue' = SetJob(queue, j.id, FailAttempt(j))
          /\ out' = NoOut
     ELSE /\ queue' = SetJob(queue, j.id, Complete(j))
          /\ out' = StatusUpdate(j.data.msg,
                                 IF worker.ok THEN "Sent" ELSE "Failed")
  /\ worker' = WorkerIdle
  /\ UNCHANGED <<devices, devCount, messages, msgCount, sch, can, bulk,
                 pushed, cancels, bulks>>
  /\ UNCHANGED reg

(* ------------------ DELETE /api/push-messages/:messageId -------------- *)
\* The :messageId parameters a client may send: the id of a message, or 0
\* for a string that is not an ObjectId.
MessageIdParams == MsgIds \cup {0}

\* A plausible slip: the parameter handed to findById unchecked.
IsValidAny(id) == TRUE

\* mongoose.Types.ObjectId.isValid(messageId)
IsValid(id) == id # 0

\* A plausible slip: delivered messages treated as cancellable.
CanCancelOrSent == {"Scheduled", "Pending", "Sent"}

\* canCancel: ['Scheduled', 'Pending']
CanCancel == {"Scheduled", "Pending"}

\* ['Scheduled', 'Pending'].includes(message.status) of the bulk route
Cancellable == {"Scheduled", "Pending"}

\* job.remove() throws when the job is locked by the processor.
RemoveThrows(j) == ~Removable(j)

\* The check of the parameter, then
\* const message = await Message.findById(messageId) and the branch taken;
\* for a cancellable message also getJob(messageId), its removal when found,
\* and Device.find({isActive: true}).  redisOk = FALSE is a failed Redis
\* command, which makes the queue call throw.
CancelRequest(id, redisOk) ==
  /\ can.pc = "idle"
  /\ cancels < MaxCancels
  /\ cancels' = cancels + 1
  /\ IF ~IsValid(id)
     THEN /\ can' = CanIdle
          /\ out' = [Response("cancel", 400, "Invalid message ID provided")
                       EXCEPT !.id = id]
          /\ UNCHANGED queue
     ELSE IF id \notin DOMAIN messages
     THEN /\ can' = CanIdle
          /\ out' = [Response("cancel", 404, "Message not found")
                       EXCEPT !.id = id]
          /\ UNCHANGED queue
     ELSE IF messages[id].status \notin CanCancel
     THEN /\ can' = [CanIdle EXCEPT !.id = id, !.read = messages[id].status,
                       !.pc = "delete"]
          /\ out' = NoOut
          /\ UNCHANGED queue
     ELSE LET job == GetJob(queue, MsgOid(id))
              c == [CanIdle EXCEPT !.id = id, !.read = messages[id].status]
          IN  /\ out' = NoOut
              /\ IF ~redisOk \/ \E j \in job : RemoveThrows(j)
                 THEN /\ can' = [c EXCEPT !.pc = "catch", !.qfail = TRUE]
                      /\ UNCHANGED queue
                 ELSE /\ queue' = QueueRemove(queue, MsgOid(id))
                      /\ can' = [c EXCEPT !.devs = ActiveDevices,
                                   !.pc = IF ActiveDevices = {} THEN "save"
                                          ELSE "deviceJobs"]
  /\ UNCHANGED <<devices, devCount, messages, msgCount, worker, sch, bulk,
                 pushed, bulks>>
  /\ UNCHANGED reg

\* One turn of the loop over the active devices: getJob(`${messageId}-
\* ${device._id}`) and remove it when found.
CancelDeviceJob(redisOk) ==
  /\ can.pc = "deviceJobs"
  /\ LET d == Min(can.devs)
         deviceJobId == JobId(can.id, d)
         deviceJob == GetJob(queue, deviceJobId)
         rest == can.devs \ {d}
     IN  IF ~redisOk \/ \E j \in deviceJob : RemoveThrows(j)
         THEN /\ can' = [can EXCEPT !.pc = "catch", !.devs = {},
                           !.qfail = TRUE]
              /\ UNCHANGED queue
         ELSE /\ queue' = QueueRemove(queue, deviceJobId)
              /\ can' = [can EXCEPT !.devs = rest,
                           !.pc = IF rest = {} THEN "save" ELSE "deviceJobs"]
  /\ UNCHANGED <<devices, devCount, messages, msgCount, worker, sch, bulk,
                 pushed, cancels, bulks>>
  /\ out' = NoOut
  /\ UNCHANGED reg

\* A plausible slip: the status is left alone when the queue call threw.
CancelledStatusUnlessCaught(pc, old) ==
  IF pc = "catch" THEN old ELSE "Cancelled"

\* message.status = 'Cancelled' (in the try block and in its catch alike)
CancelledStatus(pc, old) == "Cancelled"

\* message.status = 'Cancelled'; message.cancelledAt = new Date();
\* await message.save() -- at the end of the try block (pc = "save") or in
\* its catch (pc = "catch"), where the response carries a warning.  save()
\* of a document that is no longer stored throws, and the outer catch
\* answers 500.
CancelSave ==
  /\ can.pc \in {"save", "catch"}
  /\ IF can.id \in DOMAIN messages
     THEN /\ messages' = [messages EXCEPT ![can.id] =
                            ApplyUpdate(@, CancelledStatus(can.pc, @.status),
                                        "cancelledAt")]
          /\ out' = [Response("cancel", 200, "") EXCEPT !.id = can.id,
                       !.read = can.read, !.warn = (can.pc = "catch"),
                       !.qfail = can.qfail]
     ELSE /\ out' = [Response("cancel", 500, "save") EXCEPT !.id = can.id,
                       !.read = can.read, !.qfail = can.qfail]
          /\ UNCHANGED messages
  /\ can' = CanIdle
  /\ UNCHANGED <<devices, devCount, msgCount, queue, worker, sch, bulk,
                 pushed, cancels, bulks>>
  /\ UNCHANGED reg

\* await Message.findByIdAndDelete(messageId) (delivered / other statuses)
CancelDelete ==
  /\ can.pc = "delete"
  /\ messages' = Drop(messages, {can.id})
  /\ out' = [Response("delete", 200, "") EXCEPT !.id = can.id,
               !.read = can.read]
  /\ can' = CanIdle
  /\ UNCHANGED <<devices, devCount, msgCount, queue, worker, sch, bulk,
                 pushed, cancels, bulks>>
  /\ UNCHANGED reg

(* ---------------------- DELETE /api/push-messages --------------------- *)
\* deleteFilter: {_id: {$in: messageIds}}, {status} or {createdAt: {$lt:
\* new Date(olderThan)}}; before is the distance of olderThan into the past.
Matches(b, m) ==
  /\ m \in DOMAIN messages
  /\ CASE b.kind = "ids" -> m \in b.ids
       [] b.kind = "status" -> messages[m].status = b.status
       [] b.kind = "olderThan" -> messages[m].age > b.before
       [] OTHER -> FALSE

Matching(b) == {m \in DOMAIN messages : Matches(b, m)}

\* The filter and `await Message.find(deleteFilter)`.
BulkRequest(kind, ids, status, before) ==
  /\ bulk.pc = "idle"
  /\ bulks < MaxBulks
  /\ bulks' = bulks + 1
  /\ LET b == [BulkIdle EXCEPT !.kind = kind, !.ids = ids, !.status = status,
                 !.before = before]
         found == Matching(b)
         scheduled == {m \in found : messages[m].status \in Cancellable}
     IN  IF kind = "none"
         THEN /\ bulk' = BulkIdle
              /\ out' = Response("bulk", 400, "Must provide a parameter")
         ELSE /\ bulk' = [b EXCEPT !.scheduled = scheduled,
                            !.todo = scheduled,
                            !.pc = IF scheduled = {} THEN "deleteMany"
                                   ELSE "cleanup"]
              /\ out' = NoOut
  /\ UNCHANGED <<devices, devCount, messages, msgCount, queue, worker, sch,
                 can, pushed, cancels>>
  /\ UNCHANGED reg

\* notificationQueue.getJob(message._id.toString()): the job ids the bulk
\* cleanup looks up for a record.
BulkJobIds(m) == {MsgOid(m)}

\* One turn of the loop for a Scheduled message: getJob, remove when found;
\* a queue error is caught and logged.
BulkCleanup(redisOk) ==
  /\ bulk.pc = "cleanup"
  /\ LET m == Min(bulk.todo)
         job == {j \in queue : j.id \in BulkJobIds(m)}
         rest == bulk.todo \ {m}
         next == IF rest = {} THEN "deleteMany" ELSE "cleanup"
     IN  IF ~redisOk \/ \E j \in job : RemoveThrows(j)
         THEN /\ bulk' = [bulk EXCEPT !.todo = rest, !.pc = next,
                            !.qerr = TRUE]
              /\ UNCHANGED queue
         ELSE /\ queue' = queue \ job
              /\ bulk' = [bulk EXCEPT !.todo = rest, !.pc = next,
                            !.removed = @ + Cardinality(job)]
  /\ UNCHANGED <<devices, devCount, messages, msgCount, worker, sch, can,
                 pushed, cancels, bulks>>
  /\ out' = NoOut
  /\ UNCHANGED reg

\* await Message.deleteMany(deleteFilter) and the response: deletedCount
\* (the size of gone) and queueJobsRemoved; scheduled are the messages the
\* cleanup loop treated, qfail tells that a queue call threw in it.
BulkDeleteMany ==
  /\ bulk.pc = "deleteMany"
  /\ messages' = Drop(messages, Matching(bulk))
  /\ out' = [Response("bulk", 200, "") EXCEPT !.scheduled = bulk.scheduled,
               !.qfail = bulk.qerr, !.removed = bulk.removed,
               !.gone = Matching(bulk)]
  /\ bulk' = BulkIdle
  /\ UNCHANGED <<devices, devCount, msgCount, queue, worker, sch, can, pushed,
                 cancels, bulks>>
  /\ UNCHANGED reg

(* --------------------------- specification ---------------------------- *)
\* The request bodies a client may send to the schedule route: every shape
\* of datetime string for every instant, an explicit deviceId, and bodies
\* with a field missing.
ScheduleRequests ==
  { [title |-> "T", body |-> "B", hasDate |-> TRUE, str |-> str,
     deviceId |-> 0] :
      str \in UNION {DateStrings(off) : off \in Offsets} }
  \cup
  { [title |-> "T", body |-> "B", hasDate |-> TRUE,
     str |-> DateString(TRUE, FALSE, TickMs - CstOffsetMs, 0),
     deviceId |-> d] : d \in DevIds }
  \cup
  { [title |-> t, body |-> b, hasDate |-> h,
     str |-> DateString(TRUE, TRUE, TickMs, 0), deviceId |-> 0] :
      t \in Titles, b \in Bodies, h \in BOOLEAN }
  \cup
  { [title |-> "T", body |-> "B", hasDate |-> TRUE,
     str |-> DateString(TRUE, TRUE, 0 - 3600000, 0), deviceId |-> d] :
      d \in DevIds }

\* The request bodies a client may send to the bulk delete route.
BulkRequests ==
  { [kind |-> "ids", ids |-> ids, status |-> "", before |-> 0] :
      ids \in (SUBSET MsgIds) \ {{}} }
  \cup { [kind |-> "status", ids |-> {}, status |-> st, before |-> 0] :
           st \in {"Scheduled", "Sent"} }
  \cup { [kind |-> "olderThan", ids |-> {}, status |-> "", before |-> 0] }
  \cup { [kind |-> "none", ids |-> {}, status |-> "", before |-> 0] }

Next ==
  \/ Tick
  \/ \E t \in PushTokens : RegisterDevice(t)
  \/ DeleteAllDevices
  \/ \E r \in ScheduleRequests :
       ScheduleMessage(r.title, r.body, r.hasDate, r.str, r.deviceId)
  \/ \E title \in Titles, body \in Bodies, deviceId \in {0} \cup DevIds :
       ImmediateMessage(title, body, deviceId)
  \/ SaveMessage
  \/ \E redisOk \in BOOLEAN : EnqueueJob(redisOk)
  \/ \E id \in JobIds : ProcessJob(id)
  \/ \E outcome \in GatewayOutcomes : CallGateway(outcome)
  \/ UpdateStatus
  \/ EmitAndReturn
  \/ \E id \in MessageIdParams, redisOk \in BOOLEAN :
       CancelRequest(id, redisOk)
  \/ \E redisOk \in BOOLEAN : CancelDeviceJob(redisOk)
  \/ CancelSave
  \/ CancelDelete
  \/ \E r \in BulkRequests : BulkRequest(r.kind, r.ids, r.status, r.before)
  \/ \E redisOk \in BOOLEAN : BulkCleanup(redisOk)
  \/ BulkDeleteMany

Spec == Init /\ [][Next]_vars

\* The registration handler step by step, with requests interleaving between
\* its read and its write.
RegNext ==
  \/ \E h \in RegHandlers, token \in PushTokens \cup {0} :
       RegisterFind(h, token)
  \/ \E h \in RegHandlers : RegisterSave(h)
  \/ DeleteAllDevices

RegSpec == Init /\ [][RegNext]_vars

\* The server started on a Device collection that already holds a document
\* whose isActive is false (a path of deviceSchema; no route of the server
\* writes it, the document has it from another client of the database).
InitStored ==
  /\ devices = (1 :> [pushToken |-> 1, isActive |-> FALSE, lastActive |-> 0])
  /\ devCount = 1
  /\ messages = <<>>
  /\ msgCount = 0
  /\ queue = {}
  /\ worker = WorkerIdle
  /\ sch = SchIdle
  /\ can = CanIdle
  /\ bulk = BulkIdle
  /\ pushed = {}
  /\ cancels = 0
  /\ bulks = 0
  /\ out = NoOut
  /\ reg = [h \in RegHandlers |-> RegIdle]

StoredSpec == InitStored /\ [][Next]_vars

\* The processor's async function running on after one of its awaits (the
\* gateway call, the update of the record).
WorkerResumes ==
  \/ \E outcome \in GatewayOutcomes : CallGateway(outcome)
  \/ UpdateStatus
  \/ EmitAndReturn

\* The queue under fair execution: a job in the processor's hands is never
\* left forever at an await that has settled.
FairSpec == Spec /\ WF_vars(WorkerResumes)

\* One step of the queue: Bull handing a due job to the processor, or the
\* processor running on after an await.
WorkerStep ==
  \/ \E id \in JobIds : ProcessJob(id)
  \/ WorkerResumes

\* The queue under fair execution with time passing: delays and backoffs
\* run out, a due job is handed over when the processor is free, and the
\* processor is never left forever at an await that has settled.
FairQueueSpec == Spec /\ WF_vars(Tick) /\ WF_vars(WorkerStep)

(* ------------------------------ properties ---------------------------- *)
\* The jobs the queue holds for message m.
JobsOf(m) == {j \in queue : j.data.msg = m}

Terminal == {"Sent", "Failed", "Cancelled"}

\* C1: every accepted create request that resolved to N >= 1 target devices
\* has stored exactly one Message document and has added exactly N jobs to
\* the queue, one per device; it never stores N documents.
C1_OneRecordNJobs ==
  (out.route = "create" /\ out.code = 200) =>
    /\ out.n >= 1
    /\ out.saved = 1
    /\ out.enq = out.n

\* An accepted request that fanned out to two devices has been answered.
C1_Witness ==
  /\ out.route = "create"
  /\ out.code = 200
  /\ out.n = 2
  /\ Cardinality(JobsOf(out.id)) = 2

\* C2: a record's status is monotonic: once the stored status is Sent,
\* Failed or Cancelled, no later write changes it to a different status.
C2_StatusMonotonic ==
  [][\A m \in DOMAIN messages \cap DOMAIN messages' :
       messages[m].status \in Terminal =>
         messages'[m].status = messages[m].status]_vars

\* C3: once a gateway call made for a job has been answered with success, no
\* further gateway call is made for that job.
C3_NoCallAfterSuccess ==
  \A j \in queue : ~j.again

\* C4: adding a job again for a (message, device) pair the queue already
\* holds a job for uses the same job id and leaves the queue as it is, and
\* the queue never holds two jobs under one id.
C4_AddIdempotent ==
  /\ \A j1, j2 \in queue : j1.id = j2.id => j1 = j2
  /\ \A j \in queue :
       \A delay \in {MinDelayMs, ImmediateDelayMs, TickMs} :
         QueueAdd(queue, JobId(j.data.msg, j.data.deviceId), j.data, delay)
           = queue

\* The queue holds the two jobs of one message, one of them no longer as it
\* was added.
C4_Witness ==
  \E j1, j2 \in queue :
    /\ j1.id # j2.id
    /\ j1.data.msg = j2.data.msg
    /\ j1.state = "completed"
    /\ j2.state = "delayed"

\* The well-formed schedule requests whose instant lies before the grace
\* window.
PastRequests ==
  {r \in ScheduleRequests :
     /\ r.title # "" /\ r.body # "" /\ r.hasDate
     /\ convertToCST(r.str).isValid
     /\ convertToCST(r.str).utcDate < 0 - GraceMs}

PastTimeError == "Scheduled time must be in the future"

\* C5: a schedule request whose instant is earlier than now minus the 10 s
\* grace window is answered 400 with the past-time error, and the step
\* leaves the Message store and the queue as they were.
C5_PastRejected ==
  [][\A r \in PastRequests :
       ScheduleMessage(r.title, r.body, r.hasDate, r.str, r.deviceId) =>
         /\ out'.route = "create"
         /\ out'.code = 400
         /\ out'.error = PastTimeError
         /\ sch' = SchIdle
         /\ messages' = messages
         /\ msgCount' = msgCount
         /\ queue' = queue]_vars

\* A request has been rejected with the past-time error while devices were
\* registered.
C5_Witness ==
  /\ out.route = "create"
  /\ out.code = 400
  /\ out.error = PastTimeError
  /\ ActiveDevices # {}

\* C6 (as stated): a cancel request that read the status Scheduled is
\* answered 200 with the stored status Cancelled, whether or not a queue
\* call threw, and a queue failure is reported as a warning.
C6_CancelAlwaysCancels ==
  (out.route = "cancel" /\ out.read = "Scheduled") =>
    /\ out.code = 200
    /\ out.id \in DOMAIN messages
    /\ messages[out.id].status = "Cancelled"
    /\ out.warn = out.qfail

\* C6: a cancel request that read the status Scheduled, and whose record is
\* still stored when the handler saves it, is answered 200 with the stored
\* status Cancelled, whether or not a queue call threw, and a queue failure
\* is reported as a warning.
C6_CancelOfStoredCancels ==
  (out.route = "cancel" /\ out.read = "Scheduled"
     /\ out.id \in DOMAIN messages) =>
    /\ out.code = 200
    /\ messages[out.id].status = "Cancelled"
    /\ out.warn = out.qfail

\* A cancel whose queue call threw has been answered, with jobs of the
\* record still in the queue.
C6_Witness ==
  /\ out.route = "cancel"
  /\ out.read = "Scheduled"
  /\ out.code = 200
  /\ out.qfail
  /\ JobsOf(out.id) # {}

\* C7: after a cancel of a Scheduled record during which no queue call
\* failed, the queue holds no job of that record.
C7_NoJobAfterCancel ==
  (out.route = "cancel" /\ out.read = "Scheduled" /\ out.code = 200
     /\ ~out.qfail) =>
    JobsOf(out.id) = {}

\* No handler and no job is in progress.
Quiescent ==
  /\ sch.pc = "idle"
  /\ can.pc = "idle"
  /\ bulk.pc = "idle"
  /\ worker.pc = "idle"
  /\ \A j \in queue : j.state \in {"completed", "failed"}

\* C8: with a single device (so that every record has one job), once
\* everything has come to rest a record is not Cancelled after the gateway
\* accepted its push, and is not Sent with its job removed.
C8_CancelRaceOutcome ==
  (devCount = 1 /\ Quiescent) =>
    \A m \in DOMAIN messages :
      /\ messages[m].status = "Cancelled" => m \notin pushed
      /\ messages[m].status = "Sent" => JobsOf(m) # {}

\* C9: after a bulk delete during which no queue call failed, the queue
\* holds no job of a deleted record that was Scheduled when it was found, so
\* that queueJobsRemoved counts every job that was queued for them.
C9_NoJobAfterBulkDelete ==
  (out.route = "bulk" /\ out.code = 200 /\ ~out.qfail) =>
    \A m \in out.gone \cap out.scheduled : JobsOf(m) = {}

\* C10: when the gateway answered with success and the record exists, the
\* stored record (as findByIdAndUpdate hands it back) has status Sent and
\* its deliveredAt set.
C10_SentSetsDeliveredAt ==
  (worker.pc = "emit" /\ worker.ok /\ ~worker.updated.isNull) =>
    /\ worker.updated.status = "Sent"
    /\ "deliveredAt" \in worker.updated.paths

\* C11: when the gateway's answer is not a success (a failure indicator or
\* a body of another shape) and the record exists, the stored record (as
\* findByIdAndUpdate hands it back) has status Failed and its error set.
C11_FailedSetsError ==
  (worker.pc = "emit" /\ ~worker.ok /\ ~worker.updated.isNull) =>
    /\ worker.updated.status = "Failed"
    /\ "error" \in worker.updated.paths

\* The step in which the gateway call of the job in hand throws.
GatewayThrows == worker.pc = "fetch" /\ worker'.pc = "idle"

\* C12: a gateway call that throws writes no status and leaves the job
\* delayed for a retry after the exponential backoff (2000 ms, then 6000 ms)
\* while fewer than 3 attempts were made; every job carries attempts 3, and
\* the gateway is called at most 3 times for a job.
C12_RetryCeiling ==
  /\ [](\A j \in queue : j.attempts = 3 /\ j.calls <= 3)
  /\ [][GatewayThrows =>
          LET j == TheJob(worker.job)
              after == CHOOSE x \in queue' : x.id = j.id
          IN  /\ messages' = messages
              /\ after.attemptsMade = j.attemptsMade + 1
              /\ after.calls = after.attemptsMade
              /\ \/ after.attemptsMade = 1 /\ after.state = "delayed"
                      /\ after.wait = 2000
                 \/ after.attemptsMade = 2 /\ after.state = "delayed"
                      /\ after.wait = 6000
                 \/ after.attemptsMade = 3 /\ after.state = "failed"]_vars

\* A job has had its third gateway call, after two calls that threw.
C12_Witness ==
  \E j \in queue : j.calls = 3 /\ j.attemptsMade >= 2

\* C13: when the only job of a record has used up its attempts without the
\* gateway ever accepting the push, the stored record does not stay
\* Scheduled.
C13_ExhaustionIsTerminal ==
  \A j \in queue :
    (j.state = "failed" /\ ~j.sent /\ devCount = 1
       /\ j.data.msg \in DOMAIN messages) =>
      messages[j.data.msg].status # "Scheduled"

\* C14: a job whose device is not in the store is finished by the step that
\* looks the device up: no gateway call, the Message store untouched, no
\* event or response sent, the job completed with no attempt counted, and
\* every other job as it was.
C14_DeviceNotFound ==
  [][\A id \in JobIds :
       (ProcessJob(id) /\ TheJob(id).data.deviceId \notin DOMAIN devices) =>
         LET j == TheJob(id)
             after == CHOOSE x \in queue' : x.id = id
         IN  /\ messages' = messages
             /\ pushed' = pushed
             /\ out' = NoOut
             /\ worker' = WorkerIdle
             /\ after.state = "completed"
             /\ after.calls = j.calls
             /\ after.attemptsMade = j.attemptsMade
             /\ queue' \ {after} = queue \ {j}]_vars

\* A job was completed without any gateway call while the record is still
\* Scheduled and its other job still waits.
C14_Witness ==
  \E j, k \in queue :
    /\ j.state = "completed" /\ j.calls = 0
    /\ k.id # j.id /\ k.data.msg = j.data.msg /\ k.state = "delayed"
    /\ j.data.msg \in DOMAIN messages
    /\ messages[j.data.msg].status = "Scheduled"

\* C15: whenever a statusUpdate event for a record is emitted, the record is
\* stored with the status the event carries.
C15_EventMatchesStore ==
  out.route = "statusUpdate" =>
    /\ out.id \in DOMAIN messages
    /\ messages[out.id].status = out.status

\* C16: a DELETE by id that read the status Sent is refused and leaves the
\* record in the store.
C16_CancelOfSentRefused ==
  (out.route \in {"cancel", "delete"} /\ out.read = "Sent") =>
    /\ out.code # 200
    /\ out.id \in DOMAIN messages

Delivered == {"Sent", "Failed"}

\* C17: a DELETE by id that read the status Sent or Failed is answered 200
\* with the record removed from the store, and no step of the handler
\* touches the queue or writes a stored record.
C17_DeleteOfDelivered ==
  /\ []((out.route \in {"cancel", "delete"} /\ out.read \in Delivered) =>
          /\ out.route = "delete"
          /\ out.code = 200
          /\ out.id \notin DOMAIN messages)
  /\ [][(can' # can /\ (can.read \in Delivered \/ can'.read \in Delivered)) =>
          /\ queue' = queue
          /\ \A m \in DOMAIN messages' : messages'[m] = messages[m]]_vars

\* A Sent record has been deleted by id while its job is still kept in the
\* queue.
C17_Witness ==
  /\ out.route = "delete"
  /\ out.read = "Sent"
  /\ out.code = 200
  /\ JobsOf(out.id) # {}

\* C18: a DELETE by id whose parameter is not an ObjectId is answered 400,
\* one for which no record is stored 404, and either leaves the Message
\* store and the queue as they were.
C18_BadIdRejected ==
  [][\A id \in MessageIdParams, redisOk \in BOOLEAN :
       (CancelRequest(id, redisOk) /\ id \notin DOMAIN messages) =>
         /\ out'.route = "cancel"
         /\ out'.code = IF id = 0 THEN 400 ELSE 404
         /\ out'.error = IF id = 0 THEN "Invalid message ID provided"
                         ELSE "Message not found"
         /\ can' = CanIdle
         /\ messages' = messages
         /\ queue' = queue]_vars

\* A DELETE by id was answered 404 for a record that is gone while its job
\* is still queued, or 400 while a record and its job exist.
C18_Witness ==
  /\ out.route = "cancel"
  /\ queue # {}
  /\ \/ out.code = 404 /\ messages = <<>>
     \/ out.code = 400 /\ messages # <<>>

\* C19: when an enqueue call fails after the record was stored, the store
\* does not keep the record as Scheduled with fewer jobs queued than target
\* devices (the schema has no path that would tell).
C19_NoOrphanedRecord ==
  (out.route = "create" /\ out.code = 500 /\ out.error = "queue"
     /\ out.id \in DOMAIN messages) =>
    ~(messages[out.id].status = "Scheduled" /\ out.enq < out.n)

\* A title or body longer than the schema allows, and one that is that or
\* empty.
Oversized(title, body) == Len(title) > 100 \/ Len(body) > 500
BadText(title, body) == title = "" \/ body = "" \/ Oversized(title, body)

\* The answer of a create route that refuses the request.
Refused ==
  /\ out'.route = "create"
  /\ out'.code \in {400, 404, 500}
  /\ sch' = SchIdle

\* The step in which a create request comes in.
CreateComesIn ==
  sch.pc = "idle" /\ (sch'.pc = "save" \/ out'.route = "create")

\* C20: a create request (scheduled or immediate) with an empty or
\* oversized title or body, or one that resolves to no device, is refused
\* when it comes in or when its document is saved; no step of it stores a
\* record or adds a job, and no stored record has such a title or content.
C20_BadRequestRefused ==
  /\ [](\A m \in DOMAIN messages :
          ~BadText(messages[m].title, messages[m].content))
  /\ [][/\ CreateComesIn =>
             \A r \in ScheduleRequests :
               (/\ ScheduleMessage(r.title, r.body, r.hasDate, r.str,
                                   r.deviceId)
                /\ BadText(r.title, r.body) \/ FindTargets(r.deviceId) = {})
               => /\ messages' = messages /\ queue' = queue
                  /\ Refused
                       \/ (sch'.pc = "save" /\ Oversized(r.title, r.body))
        /\ CreateComesIn =>
             \A title \in Titles, body \in Bodies,
                deviceId \in {0} \cup DevIds :
               (/\ ImmediateMessage(title, body, deviceId)
                /\ BadText(title, body) \/ FindTargets(deviceId) = {})
               => /\ messages' = messages /\ queue' = queue
                  /\ Refused \/ (sch'.pc = "save" /\ Oversized(title, body))
        /\ (sch.pc = "save" /\ sch' # sch /\ BadText(sch.title, sch.body))
             => /\ messages' = messages /\ queue' = queue
                /\ msgCount' = msgCount
                /\ Refused]_vars

\* A request with an oversized title or body was refused when its document
\* was saved, with a device registered.
C20_Witness ==
  /\ out.route = "create"
  /\ out.code = 500
  /\ out.error = "validation"
  /\ ActiveDevices # {}

\* C21: the update that follows a gateway answer of success writes Sent to
\* the record when it is stored, and so, under fair execution of the queue, a
\* record with a single target device for which the gateway answered a call
\* with success eventually has the stored status Sent, unless it was
\* cancelled or deleted.
C21_EventuallySent ==
  /\ [][(/\ worker.pc = "update" /\ worker.ok /\ worker' # worker
          /\ TheJob(worker.job).data.msg \in DOMAIN messages) =>
          messages'[TheJob(worker.job).data.msg].status = "Sent"]_vars
  /\ \A m \in MsgIds :
       (m \in pushed /\ devCount = 1) ~>
         \/ m \notin DOMAIN messages
         \/ messages[m].status \in {"Sent", "Cancelled"}

\* The record of a single-device request is Sent after the gateway accepted
\* its push, its job completed.
C21_Witness ==
  /\ devCount = 1
  /\ \E m \in pushed \cap DOMAIN messages :
       /\ messages[m].status = "Sent"
       /\ \E j \in JobsOf(m) : j.state = "completed"

\* The jobs of m have all come to rest.
Finished(m) == \A j \in JobsOf(m) : j.state \in {"completed", "failed"}

\* C22: the record of an immediate send to two devices (two jobs of delay
\* 5000 ms) that nobody cancelled or deleted is Sent once both jobs have
\* finished and the gateway accepted the push of one of them, whatever the
\* outcome of the other.
C22_SentAfterFirstSuccess ==
  \A m \in DOMAIN messages :
    (/\ cancels = 0 /\ bulks = 0
     /\ Cardinality(JobsOf(m)) = 2
     /\ \A j \in JobsOf(m) : j.delay = ImmediateDelayMs
     /\ \E j \in JobsOf(m) : j.sent
     /\ Finished(m) /\ worker.pc = "idle")
    => messages[m].status = "Sent"

\* The jobs a step added to the queue.
Added == {j \in queue' : \A k \in queue : k.id # j.id}

\* C23: the schedule route keeps max(1000, scheduledInstant - now) as the
\* delay of an accepted request, also for an instant inside the grace
\* window, every job is added with the delay its request keeps, no job has a
\* delay below 1000 ms, and the jobs of one record have one delay.
C23_DelayIsMaxOfMinimum ==
  /\ [](/\ \A j \in queue : j.delay >= MinDelayMs
        /\ \A j, k \in queue : j.data.msg = k.data.msg => j.delay = k.delay)
  /\ [][/\ CreateComesIn =>
             \A r \in ScheduleRequests :
               (/\ ScheduleMessage(r.title, r.body, r.hasDate, r.str,
                                   r.deviceId)
                /\ sch'.pc = "save" /\ sch'.route = "scheduled")
               => sch'.delay = Max({MinDelayMs, convertToCST(r.str).utcDate})
        /\ \A j \in Added : j.delay = sch.delay /\ j.wait = sch.delay]_vars

\* Two jobs of one record were added with the minimum delay by the schedule
\* route (the instant lay in the grace window or less than a second ahead).
C23_Witness ==
  \E j, k \in queue :
    /\ j.id # k.id /\ j.data.msg = k.data.msg
    /\ j.delay = MinDelayMs /\ k.delay = MinDelayMs

\* The datetime strings of the schedule requests.
RequestStrings == {r.str : r \in ScheduleRequests}

\* C24: a datetime string without offset or zone is converted to the instant
\* its wall-clock components denote at UTC-06:00 (read as UTC, plus 6 hours),
\* one with an offset or Z to the instant it names; the schedule route takes
\* its delay from that instant.
C24_NaiveReadAsCst ==
  /\ [](\A s \in RequestStrings :
          convertToCST(s).isValid =>
            /\ ~s.hasTz => convertToCST(s).utcDate = s.wall + 21600000
            /\ s.hasTz => convertToCST(s).utcDate = s.wall - s.off)
  /\ [][CreateComesIn =>
          \A r \in ScheduleRequests :
            (/\ ScheduleMessage(r.title, r.body, r.hasDate, r.str,
                                r.deviceId)
             /\ ~r.str.hasTz /\ r.str.shape /\ r.title # "" /\ r.body # ""
             /\ r.hasDate /\ r.str.parts # "range")
            => IF r.str.wall + 21600000 < 0 - GraceMs
               THEN out'.error = PastTimeError
               ELSE \/ out'.code = 404
                    \/ /\ sch'.pc = "save"
                       /\ sch'.delay = Max({1000, r.str.wall + 21600000})]_vars

\* A request that names one of two active devices (its datetime string is
\* naive, five minutes ahead in CST) was accepted with a delay of five
\* minutes.
C24_Witness ==
  /\ sch.pc = "save" /\ sch.route = "scheduled"
  /\ sch.n = 1 /\ Cardinality(ActiveDevices) = 2
  /\ sch.delay = TickMs

\* C25: a schedule request (otherwise complete) whose datetime string has
\* not the expected shape, or whose components do not form a calendar
\* instant, is answered 400 with the invalid-time error, and the step stores
\* no record and adds no job.
C25_InvalidTimeRejected ==
  [][CreateComesIn =>
       \A r \in ScheduleRequests :
         (/\ ScheduleMessage(r.title, r.body, r.hasDate, r.str, r.deviceId)
          /\ r.title # "" /\ r.body # "" /\ r.hasDate
          /\ ~r.str.shape \/ r.str.parts # "real")
         => /\ out'.route = "create"
            /\ out'.code = 400
            /\ out'.error = "Invalid datetime format"
            /\ sch' = SchIdle
            /\ messages' = messages
            /\ queue' = queue]_vars

\* C26: every stored record has a status among Scheduled, Sent, Failed and
\* Cancelled, and a record is stored with status Scheduled.
C26_StatusInEnum ==
  /\ [](\A m \in DOMAIN messages :
          messages[m].status \in {"Scheduled", "Sent", "Failed", "Cancelled"})
  /\ [][\A m \in DOMAIN messages' \ DOMAIN messages :
          messages'[m].status = "Scheduled"]_vars

\* A record has been written by a job and then by a cancel request.
C26_Witness ==
  \E m \in DOMAIN messages :
    /\ messages[m].status = "Cancelled"
    /\ \E j \in JobsOf(m) : j.state = "completed" /\ j.calls > 0

\* C27: the save of a cancel request writes Cancelled only over the stored
\* status Scheduled.
C27_CancelledOnlyOverScheduled ==
  [][(/\ can.pc \in {"save", "catch"} /\ can' = CanIdle
      /\ can.id \in DOMAIN messages)
     => messages[can.id].status = "Scheduled"]_vars

\* C28: when a cancel during which a queue call failed has been answered,
\* the queue holds no job of the record for an active device that could be
\* removed.
C28_OtherJobsStillRemoved ==
  (out.route = "cancel" /\ out.code = 200 /\ out.qfail) =>
    \A j \in JobsOf(out.id) :
      j.data.deviceId \in ActiveDevices => ~Removable(j)

\* C29: the payload of every gateway call carries as body the body text the
\* record was created with.
C29_PayloadCarriesBody ==
  worker.pc = "fetch" =>
    worker.body = TheJob(worker.job).data.content

\* C30: an attempt of a job whose update found the record (and so wrote a
\* status) returns, the job is kept as completed, and a completed job is
\* never handed to the processor again: no job writes a status in two
\* attempts.
C30_OneWritePerJob ==
  /\ [][(/\ worker.pc = "update" /\ worker' # worker
          /\ TheJob(worker.job).data.msg \in DOMAIN messages) =>
          /\ worker'.pc = "emit"
          /\ ~worker'.updated.isNull]_vars
  /\ [][(worker.pc = "emit" /\ ~worker.updated.isNull /\ worker' # worker) =>
          \E j \in queue' : j.id = worker.job /\ j.state = "completed"]_vars
  /\ [][\A j \in queue : j.state = "completed" =>
          \A k \in queue' : k.id = j.id => k = j]_vars

\* A job has completed with a status written in its second or third
\* attempt, after attempts that threw.
C30_Witness ==
  \E j \in queue :
    /\ j.state = "completed" /\ j.attemptsMade >= 1 /\ j.calls >= 2
    /\ j.data.msg \in DOMAIN messages
    /\ messages[j.data.msg].status \in {"Sent", "Failed"}

\* C31: a bulk delete by status Scheduled examines, for queue cleanup, the
\* records its find returned (all of them Scheduled), and its deleteMany
\* removes no other record from the store.
C31_DeletesOnlyExamined ==
  [][(/\ bulk.pc = "deleteMany" /\ bulk' = BulkIdle
      /\ bulk.kind = "status" /\ bulk.status = "Scheduled")
     => (DOMAIN messages \ DOMAIN messages') \subseteq bulk.scheduled]_vars

\* C32: a record whose stored status is Sent has had a gateway call of one of
\* its jobs answered with success, and the status becomes Sent only in the
\* processor's update after such an answer.
C32_SentOnlyAfterSuccess ==
  /\ [](\A m \in DOMAIN messages :
          messages[m].status = "Sent" => m \in pushed)
  /\ [][\A m \in DOMAIN messages \cap DOMAIN messages' :
          (messages'[m].status = "Sent" /\ messages[m].status # "Sent") =>
            /\ worker.pc = "update" /\ worker'.pc = "emit"
            /\ worker.ok
            /\ TheJob(worker.job).data.msg = m
            /\ TheJob(worker.job).sent]_vars

\* A record is Sent after one of its two jobs was refused by the gateway and
\* the other accepted.
C32_Witness ==
  \E m \in DOMAIN messages :
    /\ messages[m].status = "Sent"
    /\ \E j, k \in JobsOf(m) :
         /\ j.state = "completed" /\ j.calls > 0 /\ ~j.sent
         /\ k.state = "completed" /\ k.sent

\* C36: the update of every job that finds the record stores that job's
\* status (Sent after a success, Failed otherwise) whatever the record held,
\* and apart from the save of a cancel no other step changes a stored
\* status: a job that returns or throws without an update leaves it alone.
\* So the status of a record nobody cancelled is that of the update that
\* landed last.
C36_LastWriteWins ==
  /\ [][(/\ worker.pc = "update" /\ worker'.pc = "emit"
          /\ TheJob(worker.job).data.msg \in DOMAIN messages) =>
          messages'[TheJob(worker.job).data.msg].status =
            IF worker.ok THEN "Sent" ELSE "Failed"]_vars
  /\ [][\A m \in DOMAIN messages \cap DOMAIN messages' :
          messages'[m].status # messages[m].status =>
            \/ /\ worker.pc = "update" /\ worker'.pc = "emit"
               /\ TheJob(worker.job).data.msg = m
            \/ /\ can.pc \in {"save", "catch"} /\ can' = CanIdle
               /\ can.id = m]_vars

\* With no cancel and no delete, both jobs of a record have finished and the
\* record is Failed although the gateway accepted the push of the device
\* whose job was added last: the update of the job added first landed last.
C36_Witness ==
  /\ cancels = 0 /\ bulks = 0
  /\ \E m \in DOMAIN messages :
       /\ messages[m].status = "Failed"
       /\ Finished(m)
       /\ \E j, k \in JobsOf(m) :
            /\ j.data.deviceId = 1 /\ ~j.sent /\ j.state = "completed"
            /\ k.data.deviceId = 2 /\ k.sent /\ k.state = "completed"

\* C37: for a datetime string without offset or zone that is accepted, the
\* display string of the Time Normalizer shows the wall-clock components of
\* the input, on every date of the year.
C37_DisplayShowsInput ==
  [][CreateComesIn =>
       \A r \in ScheduleRequests :
         (/\ ScheduleMessage(r.title, r.body, r.hasDate, r.str, r.deviceId)
          /\ r.title # "" /\ r.body # "" /\ r.hasDate
          /\ ~r.str.hasTz /\ r.str.shape /\ r.str.parts = "real")
         => /\ convertToCST(r.str).isValid
            /\ convertToCST(r.str).cstString = r.str.wall]_vars

AllFinal == \A j \in queue : j.state \in {"completed", "failed"}

\* C34: a job has made at most 3 attempts and is failed exactly when it has
\* made 3, and under fair execution of the queue every job in it reaches a
\* final state (completed or failed) unless it is removed: again and again
\* the queue holds final jobs only.
C34_JobsTerminate ==
  /\ [](\A j \in queue :
          /\ j.attemptsMade <= 3
          /\ j.state = "failed" <=> j.attemptsMade = 3)
  /\ []<>AllFinal

\* Of the two jobs of a record one has failed after three attempts and the
\* other has completed, and nothing is in progress.
C34_Witness ==
  /\ Quiescent
  /\ \E j, k \in queue :
       /\ j.data.msg = k.data.msg
       /\ j.state = "failed" /\ j.attemptsMade = 3
       /\ k.state = "completed"
\* C35: no two stored Device Records share a pushToken, whatever the
\* interleaving of registrations; a registration that found a document with
\* its token, still stored when it saves, creates no document, refreshes that
\* document's lastActive, and answers with its id.
C35_TokenUnique ==
  /\ [](\A d1 \in DOMAIN devices : \A d2 \in DOMAIN devices :
          devices[d1].pushToken = devices[d2].pushToken => d1 = d2)
  /\ [][\A h \in RegHandlers :
          (/\ reg[h].pc = "idle" /\ reg'[h].pc = "save"
           /\ DuplicateKey(devices, reg'[h].token))
          => /\ reg'[h].device \in DOMAIN devices
             /\ devices[reg'[h].device].pushToken = reg'[h].token]_vars
  /\ [][\A h \in RegHandlers :
          (/\ reg[h].pc = "save" /\ reg'[h].pc = "idle"
           /\ reg[h].device \in DOMAIN devices)
          => /\ DOMAIN devices' = DOMAIN devices
             /\ devCount' = devCount
             /\ devices'[reg[h].device].pushToken = reg[h].token
             /\ devices'[reg[h].device].lastActive =
                  Min({devices[reg[h].device].lastActive + 1, MaxRefresh})
             /\ out'.code = 200
             /\ out'.id = reg[h].device]_vars

\* Two registrations of one token ran concurrently: both found nothing, one
\* inserted the document and the index rejected the other.
C35_Witness ==
  /\ out.route = "register" /\ out.code = 500 /\ out.error = "E11000"
  /\ \E d \in DOMAIN devices : devices[d].lastActive = 0
  /\ \A h \in RegHandlers : reg[h].pc = "idle"

====
